---- MODULE Spec2Model ----
(***************************************************************************)
(* Model of wta_analysis.py: a script that loads a workbook of WTA game    *)
(* rows with pandas, derives helper columns, computes aggregates, prints   *)
(* them and shows three charts.  Each action is one block of the script;   *)
(* pc is the position of the interpreter in the script.                    *)
(*                                                                         *)
(* A cell of the workbook is a tuple: <<>> is a missing cell (NaN/NaT in   *)
(* pandas), <<v>> a cell holding v.  A date cell holds <<year,month,day>>. *)
(***************************************************************************)
EXTENDS Integers, Sequences, FiniteSets, TLC

VARIABLES file, pc, error, defined, df, num_rows, num_tournaments, num_matches,
          surface_counts, serve_games, overall_hold_rate, hold_by_surface,
          games_per_month, top_tournaments, out, charts

vars == <<file, pc, error, defined, df, num_rows, num_tournaments, num_matches,
          surface_counts, serve_games, overall_hold_rate, hold_by_surface,
          games_per_month, top_tournaments, out, charts>>

(***************************************************************************)
(* Bounds of the model.                                                    *)
(***************************************************************************)
\* longest dataset of the serve and month families
MaxRows == 3
\* tournaments of the largest season dataset (one more than head(10) keeps)
NumTournaments == 11
\* rows appended to a season dataset
MaxExtra == 1

(***************************************************************************)
(* Cells and rows.                                                         *)
(***************************************************************************)
NaN == <<>>

IsNull(cell) == cell = NaN

ExpectedColumns ==
  {"MATCH DATE", "TOURNAMENT ID", "TOURNAMENT NAME", "MATCH ID", "SURFACE", "WON SERVE"}

Row(d, ti, tn, mi, s, w) ==
  [c \in ExpectedColumns |->
     CASE c = "MATCH DATE" -> d
       [] c = "TOURNAMENT ID" -> ti
       [] c = "TOURNAMENT NAME" -> tn
       [] c = "MATCH ID" -> mi
       [] c = "SURFACE" -> s
       [] OTHER -> w]

SeqsUpTo(S, n) == UNION {[1..k -> S] : k \in 0..n}

\* the surface labels of the workbook, in the order Python compares strings
SurfaceLabels == <<"Clay", "Hard">>

SurfaceCells == {NaN} \cup {<<SurfaceLabels[i]>> : i \in 1..Len(SurfaceLabels)}

\* serve outcomes: the two the script looks for, another label, a missing cell
ServeCells == {<<"WON">>, <<"LOST">>, <<"DOUBLE FAULT">>, NaN}

\* raw MATCH DATE cells: two valid dates of different months, a date of the
\* same month as the first, a text that is no date, a missing cell
DateCells == {<<2024, 1, 8>>, <<2024, 2, 12>>, <<2024, 2, 30>>, NaN}

MatchCells == {<<501>>, NaN}

DefaultDate == <<2024, 1, 8>>

\* datasets whose rows differ in SURFACE and WON SERVE
ServeRows ==
  {Row(DefaultDate, <<1>>, <<1>>, <<501>>, s, w) : s \in SurfaceCells, w \in ServeCells}

\* datasets whose rows differ in MATCH DATE and MATCH ID
MonthRows ==
  {Row(d, <<1>>, <<1>>, m, <<"Hard">>, <<"WON">>) : d \in DateCells, m \in MatchCells}

\* rows of tournament i of a season: tournament i has (i+1) \div 2 game rows
RECURSIVE TournamentBlock(_, _)
TournamentBlock(i, n) ==
  IF n = 0 THEN <<>>
  ELSE <<Row(DefaultDate, <<i>>, <<i>>, <<100 * i + n>>, <<"Hard">>, <<"WON">>)>>
         \o TournamentBlock(i, n - 1)

\* a season of k tournaments, the latest tournament first in the sheet
RECURSIVE Season(_)
Season(k) ==
  IF k = 0 THEN <<>> ELSE TournamentBlock(k, (k + 1) \div 2) \o Season(k - 1)

\* rows appended to a season: of tournament 1, of tournament 1 under a second
\* name, without an id, without a name; each with and without a MATCH ID
ExtraRows ==
  {Row(DefaultDate, p[1], p[2], m, <<"Clay">>, <<"LOST">>) :
     p \in {<<<<1>>, <<1>>>>, <<<<1>>, <<2>>>>, <<NaN, <<1>>>>, <<<<1>>, NaN>>},
     m \in MatchCells}

Sheets ==
  SeqsUpTo(ServeRows, MaxRows) \cup SeqsUpTo(MonthRows, MaxRows)
    \cup {Season(k) \o x : k \in 0..NumTournaments, x \in SeqsUpTo(ExtraRows, MaxExtra)}

\* sheets of the workbooks whose header lacks a column
SmallSheets == SeqsUpTo({Row(DefaultDate, <<1>>, <<1>>, <<501>>, <<"Hard">>, <<"WON">>)}, 1)

Headers == {ExpectedColumns} \cup {ExpectedColumns \ {c} : c \in ExpectedColumns}

Files ==
  {[exists |-> TRUE, header |-> ExpectedColumns, rows |-> r] : r \in Sheets}
    \cup {[exists |-> e, header |-> h, rows |-> r] :
            e \in BOOLEAN, h \in Headers, r \in SmallSheets}

(***************************************************************************)
(* pandas and Python operations the script uses.                           *)
(***************************************************************************)
IsLeap(y) == (y % 4 = 0 /\ y % 100 # 0) \/ y % 400 = 0

DaysIn(y, m) ==
  IF m = 2 THEN (IF IsLeap(y) THEN 29 ELSE 28)
  ELSE IF m \in {4, 6, 9, 11} THEN 30 ELSE 31

\* pd.to_datetime(..., errors="coerce"): a cell that is no date becomes NaT
to_datetime(cell) ==
  IF IsNull(cell) THEN NaN
  ELSE IF cell[2] \in 1..12 /\ cell[3] \in 1..DaysIn(cell[1], cell[2]) THEN cell
  ELSE NaN

\* .dt.to_period("M"): the year and month of a date, NaT stays NaT
to_period_M(date) == IF IsNull(date) THEN NaN ELSE <<date[1], date[2]>>

\* .astype(int) of a boolean
AsInt(b) == IF b THEN 1 ELSE 0

\* str() of a monthly period: "2024-01"
PeriodStr(p) ==
  ToString(p[1]) \o "-" \o (IF p[2] < 10 THEN "0" ELSE "") \o ToString(p[2])

RECURSIVE GCD(_, _)
GCD(a, b) == IF b = 0 THEN a ELSE GCD(b, a % b)

\* the sum of xs[lo..hi], by halves
RECURSIVE SumRange(_, _, _)
SumRange(xs, lo, hi) ==
  IF lo > hi THEN 0
  ELSE IF lo = hi THEN xs[lo]
  ELSE LET mid == (lo + hi) \div 2
       IN SumRange(xs, lo, mid) + SumRange(xs, mid + 1, hi)

SumSeq(xs) == SumRange(xs, 1, Len(xs))

\* Series.mean(): NaN of an empty series, else the quotient sum/len; a float
\* is kept as the reduced fraction <<numerator, denominator>>
Mean(xs) ==
  IF Len(xs) = 0 THEN NaN
  ELSE LET g == GCD(Len(xs), SumSeq(xs)) IN <<SumSeq(xs) \div g, Len(xs) \div g>>

\* x >= y of two floats that are not NaN
FloatGeq(x, y) == x[1] * y[2] >= y[1] * x[2]

\* the float x scaled by 1000 and rounded to an integer, ties to even
Permille(x) ==
  LET n == 1000 * x[1]
      q == n \div x[2]
      r == n % x[2]
  IN IF 2 * r > x[2] \/ (2 * r = x[2] /\ q % 2 = 1) THEN q + 1 ELSE q

\* f"{x:.1%}": Python formats NaN as "nan%"
FormatPct(x) ==
  IF IsNull(x) THEN "nan%"
  ELSE ToString(Permille(x) \div 10) \o "." \o ToString(Permille(x) % 10) \o "%"

\* df[col] of every row, as a sequence
Column(rows, col) == [i \in 1..Len(rows) |-> rows[i][col]]

\* the rows that satisfy a mask, in their order
Filter(rows, mask) ==
  LET kept == {i \in 1..Len(rows) : mask[i]}
  IN [k \in 1..Cardinality(kept) |->
        rows[CHOOSE i \in kept : Cardinality({j \in kept : j <= i}) = k]]

\* Series.nunique(): the number of distinct cells that are not missing
nunique(cells) == Cardinality({cells[i] : i \in 1..Len(cells)} \ {NaN})

\* groupby(...)[col].count() of one group: the rows of the group whose col is
\* not missing
GroupCount(rows, group, col) == Cardinality({i \in group : ~IsNull(rows[i][col])})

\* the distinct cells of a series in the order they first appear, missing left out
unique(cells) ==
  Filter(cells, [i \in 1..Len(cells) |->
                   ~IsNull(cells[i]) /\ \A j \in 1..(i - 1) : cells[j] # cells[i]])

\* a < b of two integer tuples of the same length, as Python compares tuples
RECURSIVE TupleLess(_, _)
TupleLess(a, b) ==
  /\ a # <<>>
  /\ \/ Head(a) < Head(b)
     \/ Head(a) = Head(b) /\ TupleLess(Tail(a), Tail(b))

\* the position of a label among the surface labels: how Python orders them
LabelRank(label) == CHOOSE i \in 1..Len(SurfaceLabels) : SurfaceLabels[i] = label

\* the keys of a groupby (sort=True): ascending by ord[key]
RECURSIVE SortedKeys(_, _)
SortedKeys(keys, ord) ==
  IF keys = {} THEN <<>>
  ELSE LET least == CHOOSE k \in keys : \A j \in keys \ {k} : TupleLess(ord[k], ord[j])
       IN <<least>> \o SortedKeys(keys \ {least}, ord)

\* the indexers an unstable descending argsort (kind="quicksort") may return:
\* every order of the positions in which the floats do not increase
RECURSIVE ArgsortFrom(_, _)
ArgsortFrom(vals, rest) ==
  IF rest = {} THEN {<<>>}
  ELSE UNION {{<<i>> \o p : p \in ArgsortFrom(vals, rest \ {i})} :
                i \in {j \in rest : \A k \in rest : FloatGeq(vals[j], vals[k])}}

\* the sort without ascending=False: the order of the indexer turned round
ArgsortAscending(vals) ==
  {[i \in 1..Len(p) |-> p[Len(p) + 1 - i]] : p \in ArgsortFrom(vals, 1..Len(vals))}

ArgsortDescending(vals) == ArgsortFrom(vals, 1..Len(vals))

\* items.iloc[indexer]
Take(items, indexer) == [i \in 1..Len(indexer) |-> items[indexer[i]]]

\* .head(n) left out
head_all(items, n) == items

\* .head(n)
head(items, n) == SubSeq(items, 1, IF Len(items) < n THEN Len(items) ELSE n)

(***************************************************************************)
(* The interpreter.                                                        *)
(***************************************************************************)
Echo(line, text) == [line |-> line, text |-> text]

NoError == [kind |-> "none", line |-> 0]

\* an uncaught exception ends the process
Raise(kind, line) ==
  /\ pc' = "aborted"
  /\ error' = [kind |-> kind, line |-> line]

Init ==
  /\ file \in Files
  /\ pc = "load"
  /\ error = NoError
  /\ defined = {}
  /\ df = [columns |-> {}, rows |-> <<>>]
  /\ num_rows = 0
  /\ num_tournaments = 0
  /\ num_matches = 0
  /\ surface_counts = <<>>
  /\ serve_games = <<>>
  /\ overall_hold_rate = NaN
  /\ hold_by_surface = <<>>
  /\ games_per_month = <<>>
  /\ top_tournaments = <<>>
  /\ out = <<>>
  /\ charts = <<>>

\* lines 23-31: read the workbook, the second line of the sheet is the header
Load ==
  /\ pc = "load"
  /\ IF ~file.exists
     THEN /\ Raise("FileNotFoundError", 24)
          /\ UNCHANGED <<defined, df, out>>
     ELSE /\ df' = [columns |-> file.header,
                    rows |-> [i \in 1..Len(file.rows) |->
                                [c \in file.header |-> file.rows[i][c]]]]
          /\ defined' = defined \cup {"df"}
          /\ out' = out \o <<Echo(26, "Data loaded successfully!"),
                             Echo(27, "First 5 rows of the dataset:"),
                             Echo(30, "Columns in the dataset:")>>
          /\ pc' = "derive"
          /\ UNCHANGED error
  /\ UNCHANGED <<file, num_rows, num_tournaments, num_matches, surface_counts,
                 serve_games, overall_hold_rate, hold_by_surface, games_per_month,
                 top_tournaments, charts>>

\* lines 36-37: MATCH DATE parsed, MONTH added
WithDates(rows) ==
  [i \in 1..Len(rows) |->
     LET date == to_datetime(rows[i]["MATCH DATE"])
     IN [c \in DOMAIN rows[i] \cup {"MONTH"} |->
           IF c = "MATCH DATE" THEN date
           ELSE IF c = "MONTH" THEN to_period_M(date)
           ELSE rows[i][c]]]

\* is_service_game looks for "LOST" alone
WithFlagsLostOnly(rows) ==
  [i \in 1..Len(rows) |->
     [c \in DOMAIN rows[i] \cup {"hold", "is_service_game"} |->
        IF c = "hold" THEN AsInt(rows[i]["WON SERVE"] = <<"WON">>)
        ELSE IF c = "is_service_game" THEN AsInt(rows[i]["WON SERVE"] \in {<<"LOST">>})
        ELSE rows[i][c]]]

\* lines 38-39: hold and is_service_game added
WithFlags(rows) ==
  [i \in 1..Len(rows) |->
     [c \in DOMAIN rows[i] \cup {"hold", "is_service_game"} |->
        IF c = "hold" THEN AsInt(rows[i]["WON SERVE"] = <<"WON">>)
        ELSE IF c = "is_service_game"
        THEN AsInt(rows[i]["WON SERVE"] \in {<<"WON">>, <<"LOST">>})
        ELSE rows[i][c]]]

\* lines 36-41: cleaning / formatting
Derive ==
  /\ pc = "derive"
  /\ IF "MATCH DATE" \notin df.columns
     THEN /\ Raise("KeyError", 36)
          /\ UNCHANGED <<df, out>>
     ELSE IF "WON SERVE" \notin df.columns
     THEN /\ Raise("KeyError", 38)
          /\ df' = [columns |-> df.columns \cup {"MONTH"}, rows |-> WithDates(df.rows)]
          /\ UNCHANGED out
     ELSE /\ df' = [columns |-> df.columns \cup {"MONTH", "hold", "is_service_game"},
                    rows |-> WithFlags(WithDates(df.rows))]
          /\ out' = Append(out, Echo(41, "Basic cleaning done"))
          /\ pc' = "basic_structure"
          /\ UNCHANGED error
  /\ UNCHANGED <<file, defined, num_rows, num_tournaments, num_matches, surface_counts,
                 serve_games, overall_hold_rate, hold_by_surface, games_per_month,
                 top_tournaments, charts>>

\* Series.value_counts(): the count of every cell value that is not missing,
\* in order of first appearance, before the descending sort
ValueCounts(cells) ==
  LET keys == unique(cells)
  IN [k \in 1..Len(keys) |->
        [SURFACE |-> keys[k][1],
         n |-> Cardinality({i \in 1..Len(cells) : cells[i] = keys[k]})]]

\* lines 46-57: basic structure questions and games by surface
BasicStructure ==
  /\ pc = "basic_structure"
  /\ num_rows' = Len(df.rows)
  /\ IF "TOURNAMENT ID" \notin df.columns
     THEN /\ Raise("KeyError", 47)
          /\ defined' = defined \cup {"num_rows"}
          /\ UNCHANGED <<num_tournaments, num_matches, surface_counts, out>>
     ELSE IF "MATCH ID" \notin df.columns
     THEN /\ Raise("KeyError", 48)
          /\ num_tournaments' = nunique(Column(df.rows, "TOURNAMENT ID"))
          /\ defined' = defined \cup {"num_rows", "num_tournaments"}
          /\ UNCHANGED <<num_matches, surface_counts, out>>
     ELSE /\ num_tournaments' = nunique(Column(df.rows, "TOURNAMENT ID"))
          /\ num_matches' = nunique(Column(df.rows, "MATCH ID"))
          /\ LET printed ==
                   out \o <<Echo(50, "--- BASIC STRUCTURE QUESTIONS ---"),
                            Echo(51, "Total rows (roughly individual games): "
                                       \o ToString(num_rows')),
                            Echo(52, "Number of tournaments: " \o ToString(num_tournaments')),
                            Echo(53, "Number of matches: " \o ToString(num_matches'))>>
             IN IF "SURFACE" \notin df.columns
                THEN /\ Raise("KeyError", 55)
                     /\ defined' = defined \cup {"num_rows", "num_tournaments", "num_matches"}
                     /\ out' = printed
                     /\ UNCHANGED surface_counts
                ELSE /\ \E indexer \in ArgsortDescending(
                              [k \in DOMAIN ValueCounts(Column(df.rows, "SURFACE")) |->
                                 <<ValueCounts(Column(df.rows, "SURFACE"))[k].n, 1>>]) :
                          surface_counts' =
                            Take(ValueCounts(Column(df.rows, "SURFACE")), indexer)
                     /\ defined' = defined \cup {"num_rows", "num_tournaments",
                                                 "num_matches", "surface_counts"}
                     /\ out' = printed \o <<Echo(56, "Games by surface:")>>
                     /\ pc' = "serve_performance"
                     /\ UNCHANGED error
  /\ UNCHANGED <<file, df, serve_games, overall_hold_rate, hold_by_surface,
                 games_per_month, top_tournaments, charts>>

\* line 59: the rows of df whose is_service_game is 1
ServeGames(rows) ==
  Filter(rows, [i \in 1..Len(rows) |-> rows[i]["is_service_game"] = 1])

\* lines 59-64: serve performance
ServePerformance ==
  /\ pc = "serve_performance"
  /\ serve_games' = ServeGames(df.rows)
  /\ overall_hold_rate' = Mean(Column(serve_games', "hold"))
  /\ defined' = defined \cup {"serve_games", "overall_hold_rate"}
  /\ out' = out \o <<Echo(62, "--- SERVE PERFORMANCE ---"),
                     Echo(63, "Total service games in dataset: "
                                \o ToString(Len(serve_games'))),
                     Echo(64, "Overall hold percentage: " \o FormatPct(overall_hold_rate'))>>
  /\ pc' = "hold_by_surface"
  /\ UNCHANGED <<file, error, df, num_rows, num_tournaments, num_matches, surface_counts,
                 hold_by_surface, games_per_month, top_tournaments, charts>>

\* lines 67-69: groupby("SURFACE")["hold"].mean(): one entry for every surface
\* of the rows that is not missing, ascending by label
GroupMeanBySurface(rows) ==
  LET labels == {rows[i]["SURFACE"][1] : i \in {j \in 1..Len(rows) : ~IsNull(rows[j]["SURFACE"])}}
      keys == SortedKeys(labels, [l \in labels |-> <<LabelRank(l)>>])
  IN [k \in 1..Len(keys) |->
        [SURFACE |-> keys[k],
         rate |-> Mean(Column(Filter(rows, [i \in 1..Len(rows) |->
                                              rows[i]["SURFACE"] = <<keys[k]>>]), "hold"))]]

\* lines 66-74: hold percentage by surface
HoldBySurface ==
  /\ pc = "hold_by_surface"
  /\ LET means == GroupMeanBySurface(serve_games)
     IN \E indexer \in ArgsortDescending([k \in DOMAIN means |-> means[k].rate]) :
          hold_by_surface' = Take(means, indexer)
  /\ defined' = defined \cup {"hold_by_surface"}
  /\ out' = out \o <<Echo(73, "Hold percentage by surface:")>>
                \o [k \in 1..Len(hold_by_surface') |->
                      Echo(74, hold_by_surface'[k].SURFACE \o " "
                                 \o FormatPct(hold_by_surface'[k].rate))]
  /\ pc' = "plot1"
  /\ UNCHANGED <<file, error, df, num_rows, num_tournaments, num_matches, surface_counts,
                 serve_games, overall_hold_rate, games_per_month, top_tournaments, charts>>

\* lines 77-89: bar chart of the games by surface
Plot1 ==
  /\ pc = "plot1"
  /\ out' = Append(out, Echo(78, "Creating Plot 1: Number of games by surface..."))
  /\ charts' = Append(charts, [title |-> "Number of Games by Surface",
                               data |-> surface_counts])
  /\ pc' = "plot2"
  /\ UNCHANGED <<file, error, defined, df, num_rows, num_tournaments, num_matches,
                 surface_counts, serve_games, overall_hold_rate, hold_by_surface,
                 games_per_month, top_tournaments>>

\* the third chart drawn right after the second, before its data is computed
Plot2ThenPlot3 ==
  /\ pc = "plot2"
  /\ out' = Append(out, Echo(93, "Creating Plot 2: Serve hold percentage by surface..."))
  /\ defined' = defined \cup {"hold_surface_df"}
  /\ charts' = Append(charts, [title |-> "Serve Hold Percentage by Surface",
                               data |-> hold_by_surface])
  /\ pc' = "plot3"
  /\ UNCHANGED <<file, error, df, num_rows, num_tournaments, num_matches,
                 surface_counts, serve_games, overall_hold_rate, hold_by_surface,
                 games_per_month, top_tournaments>>

\* lines 92-109: bar chart of the hold rate by surface
Plot2 ==
  /\ pc = "plot2"
  /\ out' = Append(out, Echo(93, "Creating Plot 2: Serve hold percentage by surface..."))
  /\ defined' = defined \cup {"hold_surface_df"}
  /\ charts' = Append(charts, [title |-> "Serve Hold Percentage by Surface",
                               data |-> hold_by_surface])
  /\ pc' = "games_per_month"
  /\ UNCHANGED <<file, error, df, num_rows, num_tournaments, num_matches,
                 surface_counts, serve_games, overall_hold_rate, hold_by_surface,
                 games_per_month, top_tournaments>>

\* lines 115-122: the rows with a MONTH grouped by it, ascending; each group
\* counts its MATCH ID cells that are not missing; MONTH becomes a string
GamesPerMonthOf(rows) ==
  LET months == {rows[i]["MONTH"] : i \in 1..Len(rows)} \ {NaN}
      keys == SortedKeys(months, [m \in months |-> m])
  IN [k \in 1..Len(keys) |->
        [MONTH |-> PeriodStr(keys[k]),
         NUM_GAMES |-> GroupCount(rows, {i \in 1..Len(rows) : rows[i]["MONTH"] = keys[k]},
                                  "MATCH ID")]]

\* lines 113-122: games per month
GamesPerMonth ==
  /\ pc = "games_per_month"
  /\ out' = Append(out, Echo(113, "Creating Plot 3: Number of games per month..."))
  /\ games_per_month' = GamesPerMonthOf(df.rows)
  /\ defined' = defined \cup {"games_per_month"}
  /\ pc' = "plot3"
  /\ UNCHANGED <<file, error, df, num_rows, num_tournaments, num_matches,
                 surface_counts, serve_games, overall_hold_rate, hold_by_surface,
                 top_tournaments, charts>>

\* lines 124-131: line chart of the games per month
Plot3 ==
  /\ pc = "plot3"
  /\ charts' = Append(charts, [title |-> "Number of Games per Month (2024 WTA Season)",
                               data |-> games_per_month])
  /\ pc' = "top_tournaments"
  /\ UNCHANGED <<file, error, defined, df, num_rows, num_tournaments, num_matches,
                 surface_counts, serve_games, overall_hold_rate, hold_by_surface,
                 games_per_month, top_tournaments, out>>

\* the number of entries .head(10) keeps
TopN == 10

\* lines 139-141: the rows with a TOURNAMENT ID and a TOURNAMENT NAME grouped by
\* the pair, ascending; each group counts its MATCH ID cells that are not missing
TournamentCounts(rows) ==
  LET pairs == {<<rows[i]["TOURNAMENT ID"][1], rows[i]["TOURNAMENT NAME"][1]>> :
                  i \in {j \in 1..Len(rows) : /\ ~IsNull(rows[j]["TOURNAMENT ID"])
                                              /\ ~IsNull(rows[j]["TOURNAMENT NAME"])}}
      keys == SortedKeys(pairs, [p \in pairs |-> p])
  IN [k \in 1..Len(keys) |->
        [TOURNAMENT_ID |-> keys[k][1],
         TOURNAMENT_NAME |-> keys[k][2],
         NUM_GAME_ROWS |->
           GroupCount(rows, {i \in 1..Len(rows) :
                               /\ rows[i]["TOURNAMENT ID"] = <<keys[k][1]>>
                               /\ rows[i]["TOURNAMENT NAME"] = <<keys[k][2]>>},
                      "MATCH ID")]]

\* lines 136-147: top 10 tournaments by number of game rows
TopTournaments ==
  /\ pc = "top_tournaments"
  /\ IF "TOURNAMENT NAME" \notin df.columns
     THEN /\ Raise("KeyError", 139)
          /\ out' = Append(out, Echo(136, "--- INSIGHT QUESTIONS ---"))
          /\ UNCHANGED <<defined, top_tournaments>>
     ELSE /\ LET groups == TournamentCounts(df.rows)
             IN \E indexer \in ArgsortDescending(
                    [k \in DOMAIN groups |-> <<groups[k].NUM_GAME_ROWS, 1>>]) :
                  top_tournaments' = head(Take(groups, indexer), TopN)
          /\ defined' = defined \cup {"top_tournaments"}
          /\ out' = out \o <<Echo(136, "--- INSIGHT QUESTIONS ---"),
                             Echo(146, "Top 10 tournaments by number of game-rows:")>>
          /\ pc' = "text_summary"
          /\ UNCHANGED error
  /\ UNCHANGED <<file, df, num_rows, num_tournaments, num_matches, surface_counts,
                 serve_games, overall_hold_rate, hold_by_surface, games_per_month, charts>>

\* lines 149-153: text summary of serve strength by surface
TextSummary ==
  /\ pc = "text_summary"
  /\ out' = out \o <<Echo(149, "Text summary of serve strength by surface:")>>
                \o [k \in 1..Len(hold_by_surface) |->
                      Echo(151, "- On " \o hold_by_surface[k].SURFACE
                                  \o ", players hold serve about "
                                  \o FormatPct(hold_by_surface[k].rate) \o " of the time.")]
                \o <<Echo(153, "Analysis finished.")>>
  /\ pc' = "done"
  /\ UNCHANGED <<file, error, defined, df, num_rows, num_tournaments, num_matches,
                 surface_counts, serve_games, overall_hold_rate, hold_by_surface,
                 games_per_month, top_tournaments, charts>>

Next ==
  \/ Load
  \/ Derive
  \/ BasicStructure
  \/ ServePerformance
  \/ HoldBySurface
  \/ Plot1
  \/ Plot2
  \/ GamesPerMonth
  \/ Plot3
  \/ TopTournaments
  \/ TextSummary

Spec == Init /\ [][Next]_vars

(***************************************************************************)
(* Properties.                                                             *)
(***************************************************************************)
Indices(rows, P(_)) == {i \in 1..Len(rows) : P(rows[i])}

\* the derived columns exist: the Feature Deriver has run
Derived == {"MONTH", "hold", "is_service_game"} \subseteq df.columns

Aggregates ==
  {"surface_counts", "overall_hold_rate", "hold_by_surface", "games_per_month",
   "top_tournaments"}

IsServeOutcome(cell) == cell = <<"WON">> \/ cell = <<"LOST">>

\* C1: the sum of all surface_counts entries equals row_count, also when some
\* rows have a missing SURFACE.
C1_SurfaceCountsSumToRowCount ==
  "surface_counts" \in defined =>
    SumSeq([k \in DOMAIN surface_counts |-> surface_counts[k].n]) = num_rows

\* service rows of surface label s, and those of them that were held
ServiceRowsOf(s) == Cardinality(Indices(serve_games, LAMBDA r : r["SURFACE"] = <<s>>))

HeldRowsOf(s) ==
  Cardinality(Indices(serve_games, LAMBDA r : r["SURFACE"] = <<s>> /\ r["hold"] = 1))

ListedServiceRows ==
  SumSeq([k \in DOMAIN hold_by_surface |-> ServiceRowsOf(hold_by_surface[k].SURFACE)])

ListedHeldRows ==
  SumSeq([k \in DOMAIN hold_by_surface |-> HeldRowsOf(hold_by_surface[k].SURFACE)])

\* the sum over the entries of rate * service rows of the surface
WeightedRateSum ==
  SumSeq([k \in DOMAIN hold_by_surface |->
            hold_by_surface[k].rate[1]
              * (ServiceRowsOf(hold_by_surface[k].SURFACE) \div hold_by_surface[k].rate[2])])

\* C2: with at least one service row, overall_hold_rate is the average of the
\* hold_by_surface entries weighted by the surfaces' service-row counts: the held
\* service rows are the sum of the listed surfaces' held service rows and the
\* service rows are the sum of the listed surfaces' service rows.
C2_OverallIsWeightedAverage ==
  ("hold_by_surface" \in defined /\ Len(serve_games) > 0) =>
    /\ Cardinality(Indices(serve_games, LAMBDA r : r["hold"] = 1)) = ListedHeldRows
    /\ Len(serve_games) = ListedServiceRows
    /\ overall_hold_rate[1] * ListedServiceRows = overall_hold_rate[2] * WeightedRateSum

\* C3: after feature derivation, hold = 1 implies is_service_game = 1; a row
\* whose serve outcome is neither "WON" nor "LOST" (a missing one included) has
\* hold = 0 and is_service_game = 0, is counted in num_rows, and is no row of
\* serve_games.
C3_FlagsAndServiceRows ==
  /\ Derived =>
        \A i \in 1..Len(df.rows) :
          /\ df.rows[i]["hold"] = 1 => df.rows[i]["is_service_game"] = 1
          /\ ~IsServeOutcome(file.rows[i]["WON SERVE"]) =>
                df.rows[i]["hold"] = 0 /\ df.rows[i]["is_service_game"] = 0
  /\ "num_rows" \in defined => num_rows = Len(file.rows)
  /\ "serve_games" \in defined =>
        /\ \A i \in 1..Len(serve_games) : IsServeOutcome(serve_games[i]["WON SERVE"])
        /\ Len(serve_games) =
             Cardinality(Indices(file.rows, LAMBDA r : IsServeOutcome(r["WON SERVE"])))

\* a run whose rows hold a held game, another label and a missing outcome
C3_Witness ==
  /\ "serve_games" \in defined
  /\ \E i, j, k \in 1..Len(df.rows) :
        /\ file.rows[i]["WON SERVE"] = <<"DOUBLE FAULT">>
        /\ file.rows[j]["WON SERVE"] = NaN
        /\ df.rows[k]["hold"] = 1
  /\ Len(serve_games) = 1
  /\ num_rows = 3

\* the months of the rows, missing left out
MonthsPresent == {df.rows[i]["MONTH"] : i \in 1..Len(df.rows)} \ {NaN}

\* C4: for every month m of the data, the games_per_month entry for m is the
\* number of rows whose month is m, whatever their MATCH ID; the entries sum to
\* the number of rows with a month.
C4_GamesPerMonthCountsRows ==
  "games_per_month" \in defined =>
    /\ \A m \in MonthsPresent :
          \E k \in DOMAIN games_per_month :
            /\ games_per_month[k].MONTH = PeriodStr(m)
            /\ games_per_month[k].NUM_GAMES =
                 Cardinality(Indices(df.rows, LAMBDA r : r["MONTH"] = m))
    /\ SumSeq([k \in DOMAIN games_per_month |-> games_per_month[k].NUM_GAMES])
         = Cardinality(Indices(df.rows, LAMBDA r : ~IsNull(r["MONTH"])))

\* C5: with no service row, the overall hold rate is printed as "no data", not
\* as a NaN percentage.
C5_EmptyServiceRowsReportNoData ==
  ("overall_hold_rate" \in defined /\ Len(serve_games) = 0) =>
    \A i \in DOMAIN out :
      out[i].line = 64 => out[i].text = "Overall hold percentage: no data"

\* C6: top_tournaments has at most 10 entries, in non-increasing order of count.
C6_TopTournamentsBounded ==
  "top_tournaments" \in defined =>
    /\ Len(top_tournaments) <= 10
    /\ \A k \in 1..(Len(top_tournaments) - 1) :
          top_tournaments[k].NUM_GAME_ROWS >= top_tournaments[k + 1].NUM_GAME_ROWS

\* a run over more than 10 tournaments of different sizes
C6_Witness ==
  /\ "top_tournaments" \in defined
  /\ Len(TournamentCounts(df.rows)) > 10
  /\ Len(top_tournaments) = 10
  /\ top_tournaments[1].NUM_GAME_ROWS > top_tournaments[10].NUM_GAME_ROWS

\* the (id, name) pairs in the order the rows first show them
DiscoveryOrder ==
  unique([i \in 1..Len(df.rows) |->
            IF IsNull(df.rows[i]["TOURNAMENT ID"]) \/ IsNull(df.rows[i]["TOURNAMENT NAME"])
            THEN NaN
            ELSE <<df.rows[i]["TOURNAMENT ID"][1], df.rows[i]["TOURNAMENT NAME"][1]>>])

RowsOfPair(pair) ==
  Cardinality(Indices(df.rows, LAMBDA r : /\ r["TOURNAMENT ID"] = <<pair[1]>>
                                          /\ r["TOURNAMENT NAME"] = <<pair[2]>>))

\* the position a stable descending sort of the discovered groups gives a pair
StableRank(pair) ==
  LET pos == CHOOSE i \in DOMAIN DiscoveryOrder : DiscoveryOrder[i] = pair
  IN 1 + Cardinality({j \in DOMAIN DiscoveryOrder :
                        \/ RowsOfPair(DiscoveryOrder[j]) > RowsOfPair(pair)
                        \/ RowsOfPair(DiscoveryOrder[j]) = RowsOfPair(pair) /\ j < pos})

\* C7: every top_tournaments entry counts the rows carrying its (id, name) pair;
\* the entries are the first 10 of all groups by descending count, equal counts
\* in group-discovery order, so no omitted group has more rows than a listed one.
C7_TopTournamentsAreTheLargest ==
  "top_tournaments" \in defined =>
    /\ Len(top_tournaments) =
         (IF Len(DiscoveryOrder) < 10 THEN Len(DiscoveryOrder) ELSE 10)
    /\ \A k \in DOMAIN top_tournaments :
          LET pair == <<top_tournaments[k].TOURNAMENT_ID, top_tournaments[k].TOURNAMENT_NAME>>
          IN /\ top_tournaments[k].NUM_GAME_ROWS = RowsOfPair(pair)
             /\ StableRank(pair) = k

\* C8: hold_by_surface has exactly one entry for every surface label of
\* serve_games, its value is the mean of hold over the service rows of that
\* surface, and the rates do not increase along the entries (equal rates in
\* either order).
C8_HoldBySurface ==
  "hold_by_surface" \in defined =>
    /\ {hold_by_surface[k].SURFACE : k \in DOMAIN hold_by_surface}
         = {serve_games[i]["SURFACE"][1] :
              i \in Indices(serve_games, LAMBDA r : ~IsNull(r["SURFACE"]))}
    /\ \A j, k \in DOMAIN hold_by_surface :
          hold_by_surface[j].SURFACE = hold_by_surface[k].SURFACE => j = k
    /\ \A k \in DOMAIN hold_by_surface :
          LET s == hold_by_surface[k].SURFACE
          IN /\ ServiceRowsOf(s) > 0
             /\ hold_by_surface[k].rate[1] * ServiceRowsOf(s)
                  = hold_by_surface[k].rate[2] * HeldRowsOf(s)
    /\ \A k \in 1..(Len(hold_by_surface) - 1) :
          FloatGeq(hold_by_surface[k].rate, hold_by_surface[k + 1].rate)

\* C8 as stated: one entry for every surface of serve_games, its value the mean
\* of hold over the surface's service rows, rates non-increasing, and equal
\* rates in the order of the surface labels (a stable sort).
C8_HoldBySurfaceStable ==
  /\ C8_HoldBySurface
  /\ "hold_by_surface" \in defined =>
        \A k \in 1..(Len(hold_by_surface) - 1) :
          hold_by_surface[k].rate = hold_by_surface[k + 1].rate =>
            LabelRank(hold_by_surface[k].SURFACE) < LabelRank(hold_by_surface[k + 1].SURFACE)

\* a run whose sort moved the later label in front: Hard holds more than Clay
C8_Witness ==
  /\ "hold_by_surface" \in defined
  /\ Len(hold_by_surface) = 2
  /\ hold_by_surface[1].SURFACE = "Hard"
  /\ hold_by_surface[1].rate # hold_by_surface[2].rate
  /\ Len(serve_games) = 3

\* the stage of the pipeline a line of the script belongs to
StageOfLine(line) ==
  IF line <= 31 THEN "load"
  ELSE IF line <= 41 THEN "derive"
  ELSE IF line <= 71 \/ line \in 115..122 \/ line \in 138..144 THEN "aggregate"
  ELSE "report"

\* C9: a workbook whose header lacks an expected column makes the run fail in
\* the Loader stage: before the load is reported successful and before any
\* derive, aggregate or report step.
C9_BadHeaderFailsInLoader ==
  (file.exists /\ file.header # ExpectedColumns /\ pc # "load") =>
    /\ pc = "aborted"
    /\ StageOfLine(error.line) = "load"
    /\ \A i \in DOMAIN out : out[i].text # "Data loaded successfully!"
    /\ ~Derived
    /\ defined \cap (Aggregates \cup {"num_rows"}) = {}
    /\ charts = <<>>

====
